---- MODULE Spec2Model ----
(***************************************************************************)
(* Model of merge_forecast_and_actuals_csv (src/dataset/readdata.py).      *)
(*                                                                         *)
(* Time is counted in ticks of 30 minutes from a midnight, so that one     *)
(* hour is 2 ticks and every modelled frequency divides a day (resample    *)
(* buckets anchored at the start of the day are then multiples of the      *)
(* frequency).  A value is an exact rational <<n, d>> with d > 0 in lowest *)
(* terms; NaN (pandas' missing float) is <<0, 0>>.  A series or a data     *)
(* frame column pair is a sequence of records [t |-> time, v |-> value];   *)
(* a merged table is a sequence of records [t, f, a].                      *)
(*                                                                         *)
(* A raw value that is missing in the CSV is indistinguishable from a raw  *)
(* zero once replace(0, nan) has run (lines 60 and 76), so raw frames      *)
(* carry zeros for both.  sort_index is modelled as a stable sort, which   *)
(* is what numpy's default sort does on frames this small.  Exceptions     *)
(* raised by pandas or by the function end the call in pc = "Failed".      *)
(***************************************************************************)
EXTENDS Integers, Sequences, FiniteSets

\* ------------------------------------------------------------------ bounds
MaxT == 2          \* raw timestamps of a merge are 0..MaxT ticks
MaxRows == 2       \* rows per raw input frame of a merge
SeriesMaxT == 3    \* raw timestamps when one series is studied alone
SeriesMaxRows == 3 \* rows per raw frame when one series is studied alone
MaxFreq == 3       \* target frequencies are 1..MaxFreq ticks
Hour == 2          \* pd.Timedelta(hours=1), in ticks

\* ------------------------------------------------------------------ values
NaN == <<0, 0>>
Zero == <<0, 1>>
IsNaN(x) == x[2] = 0
Abs(n) == IF n < 0 THEN -n ELSE n

RECURSIVE GCD(_, _)
GCD(a, b) == IF b = 0 THEN a ELSE GCD(b, a % b)

\* n/d in lowest terms with a positive denominator (d # 0).
Rat(n, d) ==
    LET g == GCD(Abs(n), Abs(d))
        s == IF d < 0 THEN -1 ELSE 1
    IN  <<s * (n \div g), s * (d \div g)>>

FromInt(n) == <<n, 1>>
RatAdd(x, y) == Rat(x[1] * y[2] + y[1] * x[2], x[2] * y[2])
RatSub(x, y) == Rat(x[1] * y[2] - y[1] * x[2], x[2] * y[2])
RatMulInt(x, k) == Rat(x[1] * k, x[2])
RatDivInt(x, k) == Rat(x[1], x[2] * k)

\* ------------------------------------------------------------------ series
Row(t, v) == [t |-> t, v |-> v]
TimesOf(s) == {s[i].t : i \in 1..Len(s)}
Valid(x) == ~IsNaN(x)
IsValidAt(s, i) == Valid(s[i].v)

RECURSIVE Insert(_, _)
\* insert row r after every row with time <= r.t (keeps equal times in order)
Insert(s, r) ==
    IF s = <<>> \/ s[Len(s)].t <= r.t
    THEN Append(s, r)
    ELSE Append(Insert(SubSeq(s, 1, Len(s) - 1), r), s[Len(s)])

RECURSIVE SortIndex(_)
\* .sort_index(): ascending by time, rows with equal times keep their order
SortIndex(s) ==
    IF s = <<>> THEN <<>>
    ELSE Insert(SortIndex(SubSeq(s, 1, Len(s) - 1)), s[Len(s)])

\* .replace(0, np.nan)
ReplaceZero(s) ==
    [i \in 1..Len(s) |-> Row(s[i].t, IF s[i].v = Zero THEN NaN ELSE s[i].v)]

HasDuplicates(s) == \E i, j \in 1..Len(s) : i # j /\ s[i].t = s[j].t

\* pd.date_range(start, end, freq) for a tick frequency: start + k*freq <= end
DateRange(start, end, f) ==
    IF end < start THEN <<>>
    ELSE [k \in 1..((end - start) \div f + 1) |-> start + (k - 1) * f]

MinTime(s) == s[1].t
MaxTime(s) == s[Len(s)].t

\* full_index of a sorted, non-empty forecast series
FullIndex(s, f) == DateRange(MinTime(s), MaxTime(s) + Hour - f, f)

\* series.reindex(idx) of a series with unique times
Reindex(s, idx) ==
    [k \in 1..Len(idx) |->
        Row(idx[k],
            IF \E i \in 1..Len(s) : s[i].t = idx[k]
            THEN s[CHOOSE i \in 1..Len(s) : s[i].t = idx[k]].v
            ELSE NaN)]

PrevValid(s, k) == {i \in 1..(k - 1) : IsValidAt(s, i)}
NextValid(s, k) == {j \in (k + 1)..Len(s) : IsValidAt(s, j)}
SetMax(S) == CHOOSE x \in S : \A y \in S : y <= x
SetMin(S) == CHOOSE x \in S : \A y \in S : x <= y

\* the point at time t of the line through (t0, v0) and (t1, v1)
LerpMidpoint(t0, v0, t1, v1, t) == RatDivInt(RatAdd(v0, v1), 2)
Lerp(t0, v0, t1, v1, t) ==
    RatAdd(v0, RatDivInt(RatMulInt(RatSub(v1, v0), t - t0), t1 - t0))

\* .interpolate(method="time"): a missing point between two valid points is
\* on the line through them; missing points after the last valid point take
\* its value; missing points before the first valid point stay missing.
InterpolateTime(s) ==
    [k \in 1..Len(s) |->
        IF IsValidAt(s, k) THEN s[k]
        ELSE IF PrevValid(s, k) = {} THEN s[k]
        ELSE LET i == SetMax(PrevValid(s, k))
             IN  IF NextValid(s, k) = {} THEN Row(s[k].t, s[i].v)
                 ELSE LET j == SetMin(NextValid(s, k))
                      IN  Row(s[k].t, Lerp(s[i].t, s[i].v, s[j].t, s[j].v, s[k].t))]

\* .ffill()
Ffill(s) ==
    [k \in 1..Len(s) |->
        IF IsValidAt(s, k) \/ PrevValid(s, k) = {} THEN s[k]
        ELSE Row(s[k].t, s[SetMax(PrevValid(s, k))].v)]

\* .bfill()
Bfill(s) ==
    [k \in 1..Len(s) |->
        IF IsValidAt(s, k) \/ NextValid(s, k) = {} THEN s[k]
        ELSE Row(s[k].t, s[SetMin(NextValid(s, k))].v)]

\* forecast_series.reindex(full_index).interpolate(method="time").ffill().bfill()
UpsampleForecastNoBfill(s, idx) == Ffill(InterpolateTime(Reindex(s, idx)))
UpsampleForecast(s, idx) == Bfill(Ffill(InterpolateTime(Reindex(s, idx))))

\* ------------------------------------------------------------------ actuals
\* start of the bucket of width f that holds time t (buckets anchored at 0)
BucketOf(t, f) == (t \div f) * f

\* the valid rows of s whose time falls in [lab, lab + f)
InBucket(s, lab, f) ==
    {i \in 1..Len(s) : lab <= s[i].t /\ s[i].t < lab + f /\ IsValidAt(s, i)}

RECURSIVE SumOver(_, _)
SumOver(s, I) ==
    IF I = {} THEN Zero
    ELSE LET i == SetMin(I) IN RatAdd(s[i].v, SumOver(s, I \ {i}))

\* resampler.mean() / .first() / .last() of one bucket: missing values are
\* skipped, and a bucket without a valid value is missing
Aggregate(s, I, agg) ==
    IF I = {} THEN NaN
    ELSE IF agg = "mean" THEN RatDivInt(SumOver(s, I), Cardinality(I))
    ELSE IF agg = "first" THEN s[SetMin(I)].v
    ELSE s[SetMax(I)].v

\* series.resample(freq).<agg>(): one row per bucket from the bucket of the
\* first timestamp to the bucket of the last one
ResampleLabelRight(s, f, agg) ==
    IF s = <<>> THEN <<>>
    ELSE LET labels == DateRange(BucketOf(MinTime(s), f), BucketOf(MaxTime(s), f), f)
         IN  [k \in 1..Len(labels) |->
                Row(labels[k] + f, Aggregate(s, InBucket(s, labels[k], f), agg))]
Resample(s, f, agg) ==
    IF s = <<>> THEN <<>>
    ELSE LET labels == DateRange(BucketOf(MinTime(s), f), BucketOf(MaxTime(s), f), f)
         IN  [k \in 1..Len(labels) |->
                Row(labels[k], Aggregate(s, InBucket(s, labels[k], f), agg))]

\* ------------------------------------------------------------------ align
MergedRow(t, fv, av) == [t |-> t, f |-> fv, a |-> av]

\* actuals_resampled.reindex(full_index), interpolate if "time", .ffill().bfill()
FillActualsNoBfill(ar, idx, method) ==
    LET a == Reindex(ar, idx)
    IN  Ffill(IF method = "time" THEN InterpolateTime(a) ELSE a)
FillActuals(ar, idx, method) ==
    LET a == Reindex(ar, idx)
    IN  Bfill(Ffill(IF method = "time" THEN InterpolateTime(a) ELSE a))

\* the frame built from full_index, forecast_resampled and the filled actuals
FullGridFrame(fr, ar, idx, method) ==
    LET a == FillActuals(ar, idx, method)
    IN  [k \in 1..Len(idx) |-> MergedRow(idx[k], fr[k].v, a[k].v)]

ValueAt(s, t) == s[CHOOSE i \in 1..Len(s) : s[i].t = t].v

\* forecast_df_resampled.merge(actuals_df_resampled, on="time", how="inner")
InnerMergeByPosition(fr, ar) ==
    LET n == IF Len(fr) < Len(ar) THEN Len(fr) ELSE Len(ar)
    IN  [k \in 1..n |-> MergedRow(fr[k].t, fr[k].v, ar[k].v)]
InnerMerge(fr, ar) ==
    LET Match(r) == r.t \in TimesOf(ar)
        left == SelectSeq(fr, Match)
    IN  [k \in 1..Len(left) |-> MergedRow(left[k].t, left[k].v, ValueAt(ar, left[k].t))]

\* merged.dropna(subset=[...]) and merged[(forecast_value != 0) & (actual_value != 0)]
KeepRowDropnaOnly(r) == Valid(r.f) /\ Valid(r.a)
KeepRowZeroOnly(r) == r.f # Zero /\ r.a # Zero
KeepRow(r) == Valid(r.f) /\ Valid(r.a) /\ r.f # Zero /\ r.a # Zero
FilterRows(m) == SelectSeq(m, KeepRow)

\* merged.sort_values("forecast_time").reset_index(drop=True)
SortValuesDescending(m) == LET a == SortIndex(m) IN [k \in 1..Len(a) |-> a[Len(a) + 1 - k]]
SortValues(m) == SortIndex(m)

\* ------------------------------------------------------------------ state
VARIABLES
    forecast_df, actuals_df,            \* the two raw frames read from CSV
    freq, actuals_agg, fill_missing, fill_actual_method,
    pc,                                 \* position in the function
    full_index, forecast_resampled,     \* locals of the function
    actuals_resampled, merged,
    error,                              \* the exception raised, or "none"
    run, first_output                   \* second call on the first call's output

vars == <<forecast_df, actuals_df, freq, actuals_agg, fill_missing,
          fill_actual_method, pc, full_index, forecast_resampled,
          actuals_resampled, merged, error, run, first_output>>

config == <<freq, actuals_agg, fill_missing, fill_actual_method>>
inputs == <<forecast_df, actuals_df>>

RawVals == {FromInt(0), FromInt(10), FromInt(-10)}
RawRows(maxT) == {Row(t, v) : t \in 0..maxT, v \in RawVals}
RawFrames(maxRows, maxT) == UNION {[1..n -> RawRows(maxT)] : n \in 0..maxRows}
Freqs == 1..MaxFreq
Aggs == {"mean", "first", "last", "median"}
FillMethods == {"time", "ffill", "nearest"}

Fresh ==
    /\ pc = "Loaded"
    /\ full_index = <<>>
    /\ forecast_resampled = <<>>
    /\ actuals_resampled = <<>>
    /\ merged = <<>>
    /\ error = "none"
    /\ run = 1
    /\ first_output = <<>>

\* a merge of any two small frames under any settings
Init ==
    /\ forecast_df \in RawFrames(MaxRows, MaxT)
    /\ actuals_df \in RawFrames(MaxRows, MaxT)
    /\ freq \in Freqs
    /\ actuals_agg \in Aggs
    /\ fill_missing \in BOOLEAN
    /\ fill_actual_method \in FillMethods
    /\ Fresh

\* the forecast side alone: any forecast frame, any frequency
InitForecast ==
    /\ forecast_df \in RawFrames(SeriesMaxRows, SeriesMaxT)
    /\ actuals_df = <<>>
    /\ freq \in Freqs
    /\ actuals_agg = "mean"
    /\ fill_missing = FALSE
    /\ fill_actual_method = "time"
    /\ Fresh

\* the actuals side alone: any actuals frame, frequency and aggregation
InitActuals ==
    /\ forecast_df = <<Row(0, FromInt(10))>>
    /\ actuals_df \in RawFrames(SeriesMaxRows, SeriesMaxT)
    /\ freq \in Freqs
    /\ actuals_agg \in Aggs
    /\ fill_missing = FALSE
    /\ fill_actual_method = "time"
    /\ Fresh

\* lines 55-60
ForecastSeries(df) == ReplaceZero(SortIndex(df))
\* lines 75-77
ActualsSeriesUnmasked(df) == SortIndex(df)
ActualsSeries(df) == ReplaceZero(SortIndex(df))

Raise(e) ==
    /\ pc' = "Failed"
    /\ error' = e

\* lines 55-71: mask, grid, reindex, interpolate.  index.min() of an empty
\* index is NaT and date_range refuses it; reindex refuses duplicate labels.
ForecastUpsample ==
    /\ pc = "Loaded"
    /\ LET s == ForecastSeries(forecast_df)
       IN  IF s = <<>>
           THEN Raise("ValueError: NaT") /\ UNCHANGED <<full_index, forecast_resampled>>
           ELSE IF HasDuplicates(s)
           THEN /\ Raise("ValueError: duplicate labels")
                /\ full_index' = FullIndex(s, freq)
                /\ UNCHANGED forecast_resampled
           ELSE /\ full_index' = FullIndex(s, freq)
                /\ forecast_resampled' = UpsampleForecast(s, full_index')
                /\ pc' = "ForecastResampled"
                /\ UNCHANGED error
    /\ UNCHANGED <<inputs, config, actuals_resampled, merged, run, first_output>>

\* lines 75-87
ActualsDownsample ==
    /\ pc = "ForecastResampled"
    /\ IF actuals_agg \in {"mean", "first", "last"}
       THEN /\ actuals_resampled' = Resample(ActualsSeries(actuals_df), freq, actuals_agg)
            /\ pc' = "Resampled"
            /\ UNCHANGED error
       ELSE Raise("ValueError: actuals_agg") /\ UNCHANGED actuals_resampled
    /\ UNCHANGED <<inputs, config, full_index, forecast_resampled, merged, run, first_output>>

\* line 90
ValidFillMethodUnchecked(m) == TRUE
ValidFillMethod(m) == m \in {"time", "ffill"}

\* lines 89-103
AlignFullGrid ==
    /\ pc = "Resampled"
    /\ fill_missing
    /\ IF ~ValidFillMethod(fill_actual_method)
       THEN Raise("ValueError: fill_actual_method") /\ UNCHANGED merged
       ELSE /\ merged' = FullGridFrame(forecast_resampled, actuals_resampled,
                                       full_index, fill_actual_method)
            /\ pc' = "Aligned"
            /\ UNCHANGED error
    /\ UNCHANGED <<inputs, config, full_index, forecast_resampled,
                   actuals_resampled, run, first_output>>

\* lines 104-110
AlignIntersection ==
    /\ pc = "Resampled"
    /\ ~fill_missing
    /\ merged' = InnerMerge(forecast_resampled, actuals_resampled)
    /\ pc' = "Aligned"
    /\ UNCHANGED <<inputs, config, full_index, forecast_resampled,
                   actuals_resampled, error, run, first_output>>

\* lines 112-113
Filter ==
    /\ pc = "Aligned"
    /\ merged' = FilterRows(merged)
    /\ pc' = "Filtered"
    /\ UNCHANGED <<inputs, config, full_index, forecast_resampled,
                   actuals_resampled, error, run, first_output>>

\* lines 115-116
Sort ==
    /\ pc = "Filtered"
    /\ merged' = SortValues(merged)
    /\ pc' = "Sorted"
    /\ UNCHANGED <<inputs, config, full_index, forecast_resampled,
                   actuals_resampled, error, run, first_output>>

\* the columns of a merged table as the two CSV frames
AsForecastFrame(m) == [k \in 1..Len(m) |-> Row(m[k].t, m[k].f)]
AsActualsFrame(m) == [k \in 1..Len(m) |-> Row(m[k].t, m[k].a)]

\* the returned table is written out and merged again with the same settings
Rerun ==
    /\ pc = "Sorted"
    /\ run = 1
    /\ first_output' = merged
    /\ forecast_df' = AsForecastFrame(merged)
    /\ actuals_df' = AsActualsFrame(merged)
    /\ run' = 2
    /\ pc' = "Loaded"
    /\ full_index' = <<>>
    /\ forecast_resampled' = <<>>
    /\ actuals_resampled' = <<>>
    /\ merged' = <<>>
    /\ UNCHANGED <<config, error>>

Next ==
    \/ ForecastUpsample
    \/ ActualsDownsample
    \/ AlignFullGrid
    \/ AlignIntersection
    \/ Filter
    \/ Sort
    \/ Rerun

Spec == Init /\ [][Next]_vars

NextForecast == ForecastUpsample
SpecForecast == InitForecast /\ [][NextForecast]_vars

NextActuals == ForecastUpsample \/ ActualsDownsample
SpecActuals == InitActuals /\ [][NextActuals]_vars

\* ------------------------------------------------------------------ claims
Present(x) == x[2] # 0
NonZero(x) == x[1] # 0
\* a raw value that survives masking
RawValid(x) == Present(x) /\ NonZero(x)
HasValidPoint(df) == \E i \in 1..Len(df) : RawValid(df[i].v)
Returned == pc = "Sorted"
GridTimes == {full_index[k] : k \in 1..Len(full_index)}

\* C1: every row of the returned table has a forecast value and an actual
\* value that are both present and both different from zero.
C1_ReturnedValuesPresentNonZero ==
    Returned =>
        \A k \in 1..Len(merged) :
            /\ Present(merged[k].f) /\ NonZero(merged[k].f)
            /\ Present(merged[k].a) /\ NonZero(merged[k].a)

\* a full-grid merge returned some rows and lost others to the final filter
C1_Witness ==
    /\ Returned
    /\ fill_missing
    /\ merged # <<>>
    /\ Len(merged) < Len(full_index)

\* C2: the returned rows are in strictly increasing order of forecast_time
\* (so no two rows share a timestamp), whatever the order of the raw rows
\* and however often a timestamp repeats in the actuals.
C2_ReturnedTimesStrictlyIncreasing ==
    Returned => \A k \in 1..(Len(merged) - 1) : merged[k].t < merged[k + 1].t

\* several rows returned from a forecast frame given out of order and an
\* actuals frame that repeats a timestamp
C2_Witness ==
    /\ Returned
    /\ Len(merged) >= 2
    /\ HasDuplicates(actuals_df)
    /\ Len(forecast_df) = 2
    /\ forecast_df[1].t > forecast_df[2].t

\* C3 as stated: if the forecast frame has a valid point, every Grid point
\* has a forecast value after upsampling.
C3_AnyValidPointCompletesGrid ==
    pc = "ForecastResampled" /\ HasValidPoint(forecast_df) =>
        \A k \in 1..Len(forecast_resampled) : Present(forecast_resampled[k].v)

\* C3 amended: if the forecast frame has a valid point whose timestamp is a
\* Grid point, every Grid point has a forecast value after upsampling.
C3_ValidPointOnGridCompletesGrid ==
    pc = "ForecastResampled"
    /\ (\E i \in 1..Len(forecast_df) :
            RawValid(forecast_df[i].v) /\ forecast_df[i].t \in GridTimes) =>
        /\ Len(forecast_resampled) = Len(full_index)
        /\ \A k \in 1..Len(forecast_resampled) :
            /\ forecast_resampled[k].t = full_index[k]
            /\ Present(forecast_resampled[k].v)

\* the first Grid point is a masked zero and a later Grid point is valid, so
\* the first value exists only by backward fill
C3_Witness ==
    /\ pc = "ForecastResampled"
    /\ Len(full_index) >= 2
    /\ \E i \in 1..Len(forecast_df) :
            forecast_df[i].t = full_index[1] /\ ~RawValid(forecast_df[i].v)
    /\ \E i \in 1..Len(forecast_df) :
            RawValid(forecast_df[i].v) /\ forecast_df[i].t \in GridTimes

FailsForAnotherReason ==
    \/ forecast_df = <<>>
    \/ HasDuplicates(forecast_df)
    \/ actuals_agg \notin {"mean", "first", "last"}
    \/ fill_missing /\ fill_actual_method \notin {"time", "ffill"}

C5_InvalidFillMethodNeverReturns ==
    Returned /\ merged # <<>> => fill_actual_method \in {"time", "ffill"}

\* C5 amended: at the alignment step a fill method outside {time, ffill}
\* fails the call with the fill-method error and no table when fill_missing
\* is on, and is ignored (the call goes on) when fill_missing is off.
C5_FillMethodCheckedOnlyWhenFilling ==
    [][pc = "Resampled" /\ fill_actual_method \notin {"time", "ffill"} =>
          IF fill_missing
          THEN pc' = "Failed" /\ error' = "ValueError: fill_actual_method"
               /\ merged' = <<>>
          ELSE pc' = "Aligned" /\ error' = "none"]_vars

\* the fill-method error has been raised
C5_Witness ==
    /\ pc = "Failed"
    /\ error = "ValueError: fill_actual_method"
    /\ fill_missing
    /\ actuals_resampled # <<>>

RowSet(m) == {m[k] : k \in 1..Len(m)}
\* what the full-grid mode returns for the same inputs and settings
FullGridTable(method) ==
    SortValues(FilterRows(FullGridFrame(forecast_resampled, actuals_resampled,
                                        full_index, method)))
AggregatedPresentAt(t) ==
    \E k \in 1..Len(actuals_resampled) :
        actuals_resampled[k].t = t /\ Present(actuals_resampled[k].v)

\* C6: the rows returned in intersection mode are exactly the rows that the
\* full-grid mode (either fill method) returns at the timestamps where the
\* aggregated actual value was present without filling.
C6_IntersectionIsUnfilledPartOfFullGrid ==
    Returned /\ ~fill_missing =>
        \A method \in {"time", "ffill"} :
            RowSet(merged) =
                {r \in RowSet(FullGridTable(method)) : AggregatedPresentAt(r.t)}

\* intersection mode returned rows and full-grid mode would return more
C6_Witness ==
    /\ Returned
    /\ ~fill_missing
    /\ merged # <<>>
    /\ Len(FullGridTable("time")) > Len(merged)

OneRowPerGridPoint ==
    /\ Len(merged) = Len(full_index)
    /\ \A k \in 1..Len(merged) : merged[k].t = full_index[k]

\* C7 as stated: in full-grid mode, before the final filter, there is one
\* row per Grid point and every actual value is present as soon as the
\* actuals frame has a valid value.
C7_ActualPresentIfAnyValidActual ==
    pc = "Aligned" /\ fill_missing =>
        /\ OneRowPerGridPoint
        /\ HasValidPoint(actuals_df) =>
                \A k \in 1..Len(merged) : Present(merged[k].a)

\* C7 amended: in full-grid mode, before the final filter, there is one row
\* per Grid point and every actual value is present as soon as some Grid
\* point is the label of a bucket whose aggregated actual value is present.
C7_ActualPresentIfValidBucketOnGrid ==
    pc = "Aligned" /\ fill_missing =>
        /\ OneRowPerGridPoint
        /\ (\E t \in GridTimes : AggregatedPresentAt(t)) =>
                \A k \in 1..Len(merged) : Present(merged[k].a)

\* the first Grid point has no aggregated actual value and a later one has
C7_Witness ==
    /\ pc = "Aligned"
    /\ fill_missing
    /\ Len(full_index) >= 2
    /\ ~AggregatedPresentAt(full_index[1])
    /\ \E t \in GridTimes : AggregatedPresentAt(t)

\* the raw rows of the actuals frame that are valid and fall in [lab, lab + freq)
RawInBucket(lab) ==
    {i \in 1..Len(actuals_df) :
        /\ RawValid(actuals_df[i].v)
        /\ lab <= actuals_df[i].t
        /\ actuals_df[i].t < lab + freq}

RECURSIVE RawTotal(_)
RawTotal(I) ==
    IF I = {} THEN Zero
    ELSE LET i == CHOOSE j \in I : TRUE
         IN  RatAdd(actuals_df[i].v, RawTotal(I \ {i}))

\* C8: under mean, the aggregated value of every bucket is the mean of the
\* raw values of the bucket that are neither zero nor missing, and it is
\* missing when the bucket has no such value; every raw row falls in a bucket.
C8_MeanOfValidRawValues ==
    pc = "Resampled" /\ actuals_agg = "mean" =>
        /\ \A k \in 1..Len(actuals_resampled) :
            LET lab == actuals_resampled[k].t
                val == actuals_resampled[k].v
                R == RawInBucket(lab)
            IN  /\ lab % freq = 0
                /\ IF R = {} THEN val = NaN
                   ELSE Present(val) /\ RatMulInt(val, Cardinality(R)) = RawTotal(R)
        /\ \A i \in 1..Len(actuals_df) :
            \E k \in 1..Len(actuals_resampled) :
                /\ actuals_resampled[k].t <= actuals_df[i].t
                /\ actuals_df[i].t < actuals_resampled[k].t + freq

\* a bucket holds two different valid values and a zero
C8_Witness ==
    /\ pc = "Resampled"
    /\ actuals_agg = "mean"
    /\ \E k \in 1..Len(actuals_resampled) :
        LET lab == actuals_resampled[k].t
        IN  /\ \E i, j \in RawInBucket(lab) : actuals_df[i].v # actuals_df[j].v
            /\ \E i \in 1..Len(actuals_df) :
                /\ actuals_df[i].v = Zero
                /\ lab <= actuals_df[i].t
                /\ actuals_df[i].t < lab + freq

\* the valid forecast rows before / after time g, all of them or only those
\* whose timestamp is a Grid point
Earlier(g, onGrid) ==
    {i \in 1..Len(forecast_df) :
        /\ RawValid(forecast_df[i].v)
        /\ forecast_df[i].t < g
        /\ onGrid => forecast_df[i].t \in GridTimes}
Later(g, onGrid) ==
    {i \in 1..Len(forecast_df) :
        /\ RawValid(forecast_df[i].v)
        /\ forecast_df[i].t > g
        /\ onGrid => forecast_df[i].t \in GridTimes}
Nearest(I, g) ==
    CHOOSE i \in I : \A j \in I :
        Abs(forecast_df[i].t - g) <= Abs(forecast_df[j].t - g)

\* x lies on the line through rows p and q of the forecast frame at time g
OnLine(x, p, q, g) ==
    /\ Present(x)
    /\ RatMulInt(RatSub(x, forecast_df[p].v), forecast_df[q].t - forecast_df[p].t)
         = RatMulInt(RatSub(forecast_df[q].v, forecast_df[p].v), g - forecast_df[p].t)

Interpolated(onGrid) ==
    pc = "ForecastResampled" =>
        \A k \in 1..Len(full_index) :
            LET g == full_index[k]
            IN  /\ g \notin TimesOf(forecast_df)
                /\ Earlier(g, onGrid) # {}
                /\ Later(g, onGrid) # {}
                => OnLine(forecast_resampled[k].v, Nearest(Earlier(g, onGrid), g),
                          Nearest(Later(g, onGrid), g), g)

\* C9 as stated: a Grid point that is no forecast timestamp and lies between
\* two valid forecast points gets the time-weighted linear interpolation of
\* the nearest earlier and nearest later valid points of the input series.
C9_InterpolatesBetweenInputPoints == Interpolated(FALSE)

\* C9 amended: ... of the nearest earlier and nearest later valid forecast
\* points whose timestamps are Grid points.
C9_InterpolatesBetweenGridPoints == Interpolated(TRUE)

\* a Grid point that is not half-way between two valid on-grid forecast
\* points with different values
C9_Witness ==
    /\ pc = "ForecastResampled"
    /\ \E k \in 1..Len(full_index) :
        LET g == full_index[k]
        IN  /\ g \notin TimesOf(forecast_df)
            /\ Earlier(g, TRUE) # {}
            /\ Later(g, TRUE) # {}
            /\ LET p == Nearest(Earlier(g, TRUE), g)
                   q == Nearest(Later(g, TRUE), g)
               IN  /\ forecast_df[p].v # forecast_df[q].v
                   /\ 2 * (g - forecast_df[p].t) # forecast_df[q].t - forecast_df[p].t

SecondCallEnded == run = 2 /\ pc \in {"Sorted", "Failed"}
SameTable == pc = "Sorted" /\ merged = first_output

\* C10 as stated, for a first table that has rows: merging the returned
\* table with itself (as forecast and as actuals) under the same settings
\* returns the same table.
C10_RerunReturnsSameTable == SecondCallEnded /\ first_output # <<>> => SameTable

\* C10 amended: in intersection mode, with a target frequency of at most one
\* hour and a first table that has rows, merging the returned table with
\* itself under the same settings returns the same table.
C10_IntersectionRerunReturnsSameTable ==
    SecondCallEnded /\ ~fill_missing /\ freq <= Hour /\ first_output # <<>> =>
        SameTable

\* the second call returned, and the first table skips a Grid point
C10_Witness ==
    /\ run = 2
    /\ Returned
    /\ ~fill_missing
    /\ freq <= Hour
    /\ Len(first_output) >= 2
    /\ first_output[2].t - first_output[1].t > freq

====
